---- MODULE Spec2Model ----
(***************************************************************************)
(* Model of the ProjectAURELIUS simulators and search drivers:             *)
(*   - the three furnace environments (alloys/furnace.py,                  *)
(*     perovskites/synthesis/furnace.py, synthesis/furnace.py),            *)
(*   - BatteryInterfaceEnv (alloys/integration/battery.py),                *)
(*   - the oracle and PerovskiteWalker (agent.py),                         *)
(*   - RealPhysicsOptimizer.run_experiment, expected_improvement and       *)
(*     optimize (alloys/doping/dopant.py).                                 *)
(*                                                                         *)
(* Numbers.  Python floats are modelled in decimal fixed point:            *)
(*   fractions of the furnace state   in units of 1/FracScale  (1e-4),     *)
(*   temperatures                     in whole kelvin,                     *)
(*   SEI thickness                    in units of 1/SeiScale   (1e-3 nm),  *)
(*   current densities and charge     in units of 1/JScale     (1e-2),     *)
(*   dopant concentrations            in units of 1/ConcScale  (1e-3),     *)
(*   voltages                         in units of 1/VoltScale  (1e-6 V),   *)
(*   oracle scores in units of 0.01 eV, probabilities in units of 1e-4.    *)
(* np.exp is computed by ExpNeg to about 3 significant digits as a decimal *)
(* mantissa and exponent, so that rates between 1e-30 and 1e+3 keep their  *)
(* magnitude.  Flows are rounded towards zero.                             *)
(*                                                                         *)
(* The rewards and observations that step returns are computed from the    *)
(* fields modelled here and are stored nowhere; of the returned values     *)
(* only the done flag is kept.  Draws of the random generators are         *)
(* nondeterministic choices.                                               *)
(*                                                                         *)
(* Specifications: Spec (the four environments under arbitrary callers),   *)
(* SpecColdHeat (a furnace reset at 300 K and heated on every step),       *)
(* SpecWalker (one PerovskiteWalker), SpecDopant (run_experiment),         *)
(* SpecOracle (the process of agent.py: judge loading, get_stability and   *)
(* successive walkers), SpecAcquisition (expected_improvement),            *)
(* SpecOptimize (optimize).                                                *)
(***************************************************************************)
EXTENDS Integers, Sequences, FiniteSets, TLC

VARIABLES
    env,              \* which environment class was constructed
    pc,               \* "constructed" | "reset" | "stepped": last call made on env
    temp,             \* self.temp (K)
    state,            \* self.state = <<precursor, target, waste>>
    time_step,        \* self.time_step
    done,             \* the done flag returned by the last step() (FALSE before any)
    sei_thickness,    \* BatteryInterfaceEnv.sei_thickness
    charge_stored,    \* BatteryInterfaceEnv.charge_stored
    actual_J,         \* the current applied by the last battery step
    sei_before,       \* SEI thickness at the start of the last battery step
    requested_J,      \* requested_J of the last battery step
    dendrite_fail     \* dendrite_fail of the last battery step

envVars == <<env, pc, temp, state, time_step, done,
             sei_thickness, charge_stored, actual_J, sei_before, requested_J,
             dendrite_fail>>

\* PerovskiteWalker and the oracle of agent.py
VARIABLES
    wpc,               \* "none" | "new" | "walking" | "returned": the walker
    start_formula,     \* self.start_formula
    current_formula,   \* self.current_formula
    current_stability, \* self.current_stability
    best_formula,      \* self.best_formula
    best_stability,    \* self.best_stability
    history,           \* self.history
    steps,             \* the argument of walk(steps)
    last_draw,         \* random.random() of the last step (NoDraw: not drawn)
    walkers            \* number of PerovskiteWalker instances constructed

walkerVars == <<wpc, start_formula, current_formula, current_stability,
                best_formula, best_stability, history, steps, last_draw,
                walkers>>

\* the oracle of agent.py
VARIABLES
    judge,             \* the regressor stored in judge_stability.pkl
    JUDGE,             \* the global _JUDGE: None or the loaded object
    loads,             \* number of times the file was opened and unpickled
    X_single,          \* the features extracted by the last get_stability
    X_aligned,         \* the frame the last get_stability passed to predict
    ocalls             \* number of get_stability calls made

oracleVars == <<judge, JUDGE, loads, X_single, X_aligned, ocalls>>

\* RealPhysicsOptimizer.run_experiment of alloys/doping/dopant.py
VARIABLES
    composition,       \* the argument [x_Cl, x_Br, x_I] of the last call
    noise,             \* the draw of np.random.normal(0, 0.02) of the last call
    response,          \* the value the last call returned
    calls              \* number of run_experiment calls made

dopantVars == <<composition, noise, response, calls>>

\* RealPhysicsOptimizer.expected_improvement of alloys/doping/dopant.py
VARIABLES
    mu,                \* predicted means of the candidates of the last call
    sigma,             \* predicted standard deviations of the candidates
    y_best,            \* the argument y_best of the last call
    ei                 \* the array the last call returned (empty before any)

acqVars == <<mu, sigma, y_best, ei>>

\* RealPhysicsOptimizer.optimize of alloys/doping/dopant.py
VARIABLES
    opc,               \* "idle" | "sampling" | "looping" | "returned"
    iterations,        \* the argument of optimize(iterations)
    iter,              \* the loop index i: iterations completed
    X_sample,          \* the compositions sampled so far
    Y_sample,          \* their recorded responses
    candidate_pool,    \* the fixed random candidate pool
    best_x             \* the composition optimize returned

optVars == <<opc, iterations, iter, X_sample, Y_sample, candidate_pool, best_x>>

vars == <<envVars, walkerVars, oracleVars, dopantVars, acqVars, optVars>>

----------------------------------------------------------------------------
(* Bounds of the exploration *)

\* the caller picks its actions freely for this many steps of an episode,
\* and keeps heating (furnace) or charging at full request (battery) afterwards
MaxFree == 4
\* number of step() calls explored after the step budget is used up
MaxExtra == 2
\* largest steps argument of walk()
MaxWalkSteps == 2
\* random.choice draws among the first MaxPalette entries of a site's palette
MaxPalette == 2
\* number of run_experiment calls explored
MaxCalls == 2
\* number of get_stability calls explored in one process
MaxOracleCalls == 3
\* number of PerovskiteWalker instances constructed in one process
MaxWalkers == 2
\* number of candidates scored by one expected_improvement call
MaxCandidates == 1
\* largest iterations argument of optimize()
MaxIterations == 2
\* number of rows of the candidate pool of optimize()
MaxPool == 2

----------------------------------------------------------------------------
(* Fixed-point arithmetic *)

FracScale == 10000

Pow10(n) == CASE n = 0 -> 1 [] n = 1 -> 10 [] n = 2 -> 100 [] n = 3 -> 1000
              [] n = 4 -> 10000 [] n = 5 -> 100000 [] n = 6 -> 1000000
              [] n = 7 -> 10000000 [] n = 8 -> 100000000
              [] OTHER -> 1000000000

Min(a, b) == IF a < b THEN a ELSE b
Max(a, b) == IF a > b THEN a ELSE b

\* np.clip(x, lo, hi)
Clip(x, lo, hi) == Max(lo, Min(hi, x))

\* 10^(-d/10) for d = 0..9, in units of 1e-4
Pow10NegTenths == <<10000, 7943, 6310, 5012, 3981, 3162, 2512, 1995, 1585, 1259>>

\* np.exp(-num/den) for num >= 0, den > 0, as <<m, n>> standing for
\* m * 10^(-4-n), 999 <= m <= 10000.  exp(-x) = 10^(-x*log10(e)); the integer
\* part of the decimal exponent is n, the tenths come from Pow10NegTenths and
\* the rest from the Taylor series of exp.
ExpNeg(num, den) ==
    LET x4 == (num * 10000) \div den
        y4 == (x4 \div 10000) * 4343 + ((x4 % 10000) * 4343) \div 10000
                 - (x4 * 55) \div 10000000
        n  == y4 \div 10000
        f  == y4 % 10000
        d  == f \div 1000
        v  == ((f % 1000) * 23026) \div 10000
        sq == (v * v) \div 10000
        cu == (sq * v) \div 10000
        qu == (cu * v) \div 10000
        t  == 10000 - v + sq \div 2 - cu \div 6 + qu \div 24
    IN  <<(Pow10NegTenths[d + 1] * t) \div 10000, n>>

\* a * 10^e rounded towards zero, a >= 0
Scale10(a, e) == IF e >= 0 THEN a * Pow10(e)
                 ELSE IF -e > 9 THEN 0
                 ELSE a \div Pow10(-e)

\* A * np.exp(-Ea_R / T) * x for a prefactor A = <<mantissa, exponent>> and a
\* quantity x >= 0 in fixed point; the result is in the units of x
RateTimes(A, Ea_R, T, x) ==
    LET ex == ExpNeg(Ea_R, T)
    IN  Scale10(A[1] * ex[1] * x, A[2] - 4 - ex[2])

----------------------------------------------------------------------------
(* The furnace environments *)

Furnaces == {"alloys", "perovskites", "synthesis"}

\* self.Ea_form_R
Ea_form_R(v) == IF v = "alloys" THEN 4000 ELSE 13200
\* self.A_form, as <<mantissa, decimal exponent>>
A_form(v) == IF v = "alloys" THEN <<5, 2>> ELSE <<5, 4>>
\* self.Ea_trans_R (alloys), self.Ea_deg_R (perovskites, synthesis)
Ea_deg_R(v) == IF v = "alloys" THEN 9000 ELSE 27600
\* self.A_trans (alloys), self.A_deg (perovskites, synthesis)
A_deg(v) == CASE v = "alloys" -> <<5, 5>>
              [] v = "perovskites" -> <<5, 9>>
              [] OTHER -> <<4, 10>>
\* self.max_time
max_time(v) == IF v = "synthesis" THEN 180 ELSE 300
\* the temperature increment of the cool and heat actions
TempStep(v) == IF v = "alloys" THEN 5 ELSE 10
\* the safety limits of np.clip(self.temp, lo, hi)
TempMin(v) == 300
TempMax(v) == CASE v = "alloys" -> 600
                [] v = "perovskites" -> 1600
                [] OTHER -> 1400

\* the start temperatures reset can leave in self.temp: draws of
\* np.random.uniform and values of options['temp'] (any float, also outside
\* the limits); synthesis always starts at 300.0
RandomStart(v) == CASE v = "alloys" -> {295, 300, 304}
                    [] v = "perovskites" -> {300, 500, 699}
                    [] OTHER -> {300}
OptionStart(v) == CASE v = "alloys" -> {250, 450, 700}
                    [] v = "perovskites" -> {250, 1215, 1225, 1700}
                    [] OTHER -> {}
StartTemps(v) == RandomStart(v) \cup OptionStart(v)

\* the action values a caller passes to step: Discrete(3) and one value
\* outside it
ActionInputs == {0, 1, 2, 3}
Actions(ts) == IF ts < MaxFree THEN ActionInputs ELSE {2}

\* the control step without the safety limits
ControlTemp_Unclipped(v, T, action) ==
    IF action = 0 THEN T - TempStep(v)
    ELSE IF action = 2 THEN T + TempStep(v)
    ELSE T

\* step, line "self.temp = np.clip(self.temp, lo, hi)" after the control step
ControlTemp(v, T, action) ==
    LET moved == IF action = 0 THEN T - TempStep(v)
                 ELSE IF action = 2 THEN T + TempStep(v)
                 ELSE T
    IN  Clip(moved, TempMin(v), TempMax(v))

\* clipping at 0 only
ClipState_LowerOnly(s) == <<Max(s[1], 0), Max(s[2], 0), Max(s[3], 0)>>

\* self.state = np.clip(self.state, 0, 1)
ClipState(s) == <<Clip(s[1], 0, FracScale), Clip(s[2], 0, FracScale),
                  Clip(s[3], 0, FracScale)>>

\* the mass balance of step at temperature T, before clipping
MassBalance(v, T, s) ==
    LET moles_forming == RateTimes(A_form(v), Ea_form_R(v), T, s[1])
        moles_burning == RateTimes(A_deg(v), Ea_deg_R(v), T, s[2])
    IN  <<s[1] - moles_forming,
          s[2] + (moles_forming - moles_burning),
          s[3] + moles_burning>>

----------------------------------------------------------------------------
(* BatteryInterfaceEnv *)

SeiScale == 1000
JScale == 100

\* self.critical_current_density = 0.8
critical_current_density == 80
\* self.base_sei_growth_rate = 0.05 nm
base_sei_growth_rate == 50
\* self.max_steps
max_steps == 200
\* the governor threshold "if self.sei_thickness < 8.0" and its current cap 0.3
GovernorSei == 8000
GovernorJ == 30
\* choke_fail = self.sei_thickness > 50.0
ChokeSei == 50000

\* the values of action[0] a caller passes, also outside [0, 1]
JInputs == {-50, 30, 90, 150}
JActions(ts) == IF ts < MaxFree THEN JInputs ELSE {150}

\* requested_J = float(np.clip(action[0], 0.0, 1.0))
RequestedJ(a) == Clip(a, 0, JScale)

\* a governor that passes the requested current at every thickness
ActualJ_Ungoverned(sei, requested) == requested

\* the physics governor
ActualJ(sei, requested) ==
    IF sei < GovernorSei THEN Min(requested, GovernorJ) ELSE requested

\* growth = base_sei_growth_rate * (1.0 + actual_J * 20.0)
\*          * np.exp(-self.sei_thickness / 5.0)
Growth(sei, J) ==
    LET ex == ExpNeg(sei, 5 * SeiScale)
        \* base_sei_growth_rate * growth_factor, in SEI units
        undamped == (base_sei_growth_rate * (JScale + 20 * J)) \div JScale
    IN  Scale10(undamped * ex[1], -4 - ex[2])

----------------------------------------------------------------------------
(* Construction, reset and step of the environments *)

Envs == Furnaces \cup {"battery"}

\* the step budget of an environment
Budget(v) == IF v = "battery" THEN max_steps ELSE max_time(v)

Init ==
    /\ env \in Envs
    /\ pc = "constructed"
    /\ temp = 0
    /\ state = <<0, 0, 0>>
    /\ time_step = 0
    /\ done = FALSE
    /\ sei_thickness = 0
    /\ charge_stored = 0
    /\ actual_J = 0
    /\ sei_before = 0
    /\ requested_J = 0
    /\ dendrite_fail = FALSE

\* a reset that restarts the clock and the temperature but keeps the fractions
FurnaceResetAt_KeepsState(T) ==
    /\ env \in Furnaces
    /\ temp' = T
    /\ time_step' = 0
    /\ pc' = "reset"
    /\ UNCHANGED <<env, state, done, sei_thickness, charge_stored, actual_J,
                   sei_before, requested_J,
                   dendrite_fail, walkerVars, oracleVars,
                   dopantVars, acqVars, optVars>>

\* AlloyFurnaceEnv.reset / VirtualFurnaceEnv.reset leaving the start
\* temperature T in self.temp
FurnaceResetAt(T) ==
    /\ env \in Furnaces
    /\ temp' = T
    /\ state' = <<FracScale, 0, 0>>
    /\ time_step' = 0
    /\ pc' = "reset"
    /\ UNCHANGED <<env, done, sei_thickness, charge_stored, actual_J,
                   sei_before, requested_J, dendrite_fail,
                   walkerVars, oracleVars,
                   dopantVars, acqVars, optVars>>

FurnaceReset == \E T \in StartTemps(env) : FurnaceResetAt(T)

\* a step that computes the rates at the temperature held before the action
FurnaceStepWith_RatesBefore(action) ==
    /\ env \in Furnaces
    /\ pc # "constructed"
    /\ time_step < max_time(env) + MaxExtra
    /\ temp' = ControlTemp(env, temp, action)
    /\ state' = ClipState(MassBalance(env, temp, state))
    /\ time_step' = time_step + 1
    /\ done' = (time_step' >= max_time(env))
    /\ pc' = "stepped"
    /\ UNCHANGED <<env, sei_thickness, charge_stored, actual_J,
                   sei_before, requested_J, dendrite_fail,
                   walkerVars, oracleVars,
                   dopantVars, acqVars, optVars>>

\* AlloyFurnaceEnv.step(action) / VirtualFurnaceEnv.step(action)
FurnaceStepWith(action) ==
    /\ env \in Furnaces
    /\ pc # "constructed"
    /\ time_step < max_time(env) + MaxExtra
    /\ LET T == ControlTemp(env, temp, action)
       IN  /\ temp' = T
           /\ state' = ClipState(MassBalance(env, T, state))
    /\ time_step' = time_step + 1
    /\ done' = (time_step' >= max_time(env))
    /\ pc' = "stepped"
    /\ UNCHANGED <<env, sei_thickness, charge_stored, actual_J,
                   sei_before, requested_J, dendrite_fail,
                   walkerVars, oracleVars,
                   dopantVars, acqVars, optVars>>

FurnaceStep == \E action \in Actions(time_step) : FurnaceStepWith(action)

\* BatteryInterfaceEnv.reset
BatteryReset ==
    /\ env = "battery"
    /\ sei_thickness' = 2 * SeiScale
    /\ charge_stored' = 0
    /\ time_step' = 0
    /\ pc' = "reset"
    /\ UNCHANGED <<env, done, temp, state, actual_J, sei_before, requested_J,
                   dendrite_fail, walkerVars,
                   oracleVars, dopantVars, acqVars, optVars>>

\* BatteryInterfaceEnv.step
BatteryStep ==
    /\ env = "battery"
    /\ pc # "constructed"
    /\ time_step < max_steps + MaxExtra
    /\ \E a \in JActions(time_step), draw_below_risk \in BOOLEAN :
          LET J == ActualJ(sei_thickness, RequestedJ(a))
              sei == sei_thickness + Growth(sei_thickness, J)
              dendrite == J > critical_current_density /\ draw_below_risk
              choke_fail == sei > ChokeSei
          IN  /\ requested_J' = RequestedJ(a)
              /\ actual_J' = J
              /\ sei_thickness' = sei
              /\ dendrite_fail' = dendrite
              /\ done' = (dendrite \/ choke_fail \/ time_step >= max_steps)
              /\ charge_stored' = charge_stored + J
    /\ sei_before' = sei_thickness
    /\ time_step' = time_step + 1
    /\ pc' = "stepped"
    /\ UNCHANGED <<env, temp, state, walkerVars, oracleVars,
                   dopantVars, acqVars, optVars>>

----------------------------------------------------------------------------
(* agent.py: formulas, the oracle and PerovskiteWalker *)

\* A formula is the sequence of its characters; an element symbol likewise.
UpperLetters == {"A", "B", "C", "D", "E", "F", "G", "H", "I", "J", "K", "L", "M",
                 "N", "O", "P", "Q", "R", "S", "T", "U", "V", "W", "X", "Y", "Z"}
LowerLetters == {"a", "b", "c", "d", "e", "f", "g", "h", "i", "j", "k", "l", "m",
                 "n", "o", "p", "q", "r", "s", "t", "u", "v", "w", "x", "y", "z"}

\* ACTION_SPACE
A_SITE == << <<"B","a">>, <<"S","r">>, <<"C","a">>, <<"E","u">>, <<"R","b">>,
             <<"C","s">>, <<"K">>, <<"N","a">>, <<"L","a">>, <<"Y">> >>
B_SITE == << <<"H","f">>, <<"Z","r">>, <<"T","i">>, <<"S","n">>, <<"Z","n">>,
             <<"M","g">>, <<"M","n">>, <<"G","e">>, <<"P","b">> >>
X_SITE == << <<"S">>, <<"S","e">>, <<"T","e">>, <<"B","r">>, <<"C","l">>, <<"I">> >>

\* the values random.choice(palette) is drawn from
Choices(palette) == {palette[k] : k \in 1..Min(MaxPalette, Len(palette))}

\* the length of the run of lowercase letters of f that starts at position i
RECURSIVE LowerRun(_, _)
LowerRun(f, i) ==
    IF i <= Len(f) /\ f[i] \in LowerLetters THEN 1 + LowerRun(f, i + 1) ELSE 0

\* a scanner for the pattern [A-Z][a-z]?, which takes at most one lowercase
\* letter
RECURSIVE FindAll_OneLower(_, _)
FindAll_OneLower(f, i) ==
    IF i > Len(f) THEN << >>
    ELSE IF f[i] \in UpperLetters
         THEN LET n == Min(1, LowerRun(f, i + 1))
              IN  <<SubSeq(f, i, i + n)>> \o FindAll_OneLower(f, i + n + 1)
         ELSE FindAll_OneLower(f, i + 1)

\* re.findall(r'([A-Z][a-z]*)', formula) scanning from position i
RECURSIVE FindAll(_, _)
FindAll(f, i) ==
    IF i > Len(f) THEN << >>
    ELSE IF f[i] \in UpperLetters
         THEN LET n == LowerRun(f, i + 1)
              IN  <<SubSeq(f, i, i + n)>> \o FindAll(f, i + n + 1)
         ELSE FindAll(f, i + 1)

\* PerovskiteWalker.parse_formula
parse_formula(formula) == FindAll(formula, 1)

\* f"{new_elements[0]}{new_elements[1]}{new_elements[2]}3"
Construct(els) == els[1] \o els[2] \o els[3] \o <<"3">>

\* a mutate that falls back to a default formula when parsing fails
mutate_Default(formula) ==
    LET els == parse_formula(formula)
    IN  IF Len(els) < 3 THEN {Construct(<<A_SITE[1], B_SITE[1], X_SITE[1]>>)}
        ELSE {Construct([els EXCEPT ![1] = a]) : a \in Choices(A_SITE)}
             \cup {Construct([els EXCEPT ![2] = b]) : b \in Choices(B_SITE)}
             \cup {Construct([els EXCEPT ![3] = x]) : x \in Choices(X_SITE)}

\* PerovskiteWalker.mutate: the formulas it can return for the current formula
mutate(formula) ==
    LET els == parse_formula(formula)
    IN  IF Len(els) < 3 THEN {formula}
        ELSE {Construct([els EXCEPT ![1] = a]) : a \in Choices(A_SITE)}
             \cup {Construct([els EXCEPT ![2] = b]) : b \in Choices(B_SITE)}
             \cup {Construct([els EXCEPT ![3] = x]) : x \in Choices(X_SITE)}

\* The oracle.  The features of a formula are modelled by one named numeric
\* column per element symbol of the formula, in order of first appearance,
\* holding the number of its occurrences; a data frame of one row is the
\* record of its column names and its row.
RECURSIVE CountIn(_, _)
CountIn(els, G) ==
    IF els = << >> THEN 0
    ELSE (IF Head(els) \in G THEN 1 ELSE 0) + CountIn(Tail(els), G)

RECURSIVE DistinctFrom(_, _)
DistinctFrom(els, seen) ==
    IF els = << >> THEN << >>
    ELSE IF Head(els) \in seen THEN DistinctFrom(Tail(els), seen)
    ELSE <<Head(els)>> \o DistinctFrom(Tail(els), seen \cup {Head(els)})

\* X_single: featurize_dataframe and select_dtypes(include=[np.number])
Featurize(formula) ==
    LET els == parse_formula(formula)
        cols == DistinctFrom(els, {})
    IN  [columns |-> cols,
         row |-> [i \in 1..Len(cols) |-> CountIn(els, {cols[i]})]]

\* The regressor of judge_stability.pkl, by the attributes get_stability
\* looks at: feature_names_in_ and estimators_ (the feature names of the
\* sub-models), each present or not.
SingleJudge(names) ==
    [has_feature_names |-> TRUE, feature_names_in_ |-> names,
     has_estimators |-> FALSE, estimators_ |-> << >>]
VotingJudge(names) ==
    [has_feature_names |-> TRUE, feature_names_in_ |-> names,
     has_estimators |-> TRUE, estimators_ |-> <<names, names>>]
EnsembleJudge(names) ==
    [has_feature_names |-> FALSE, feature_names_in_ |-> << >>,
     has_estimators |-> TRUE, estimators_ |-> <<names, names>>]
PlainJudge ==
    [has_feature_names |-> FALSE, feature_names_in_ |-> << >>,
     has_estimators |-> FALSE, estimators_ |-> << >>]
Judges == { SingleJudge(<< <<"B","a">> >>),
            SingleJudge(<< <<"S","e">>, <<"S">> >>),
            VotingJudge(<< <<"S">>, <<"B","a">> >>),
            EnsembleJudge(<< <<"H","f">> >>),
            PlainJudge }

\* expected_cols
ExpectedCols(j, X) ==
    IF j.has_feature_names THEN j.feature_names_in_
    ELSE IF j.has_estimators THEN j.estimators_[1]
    ELSE X.columns

\* the value of column c in frame X, fill where X has no such column
ValueOr(X, c, fill) ==
    IF \E k \in 1..Len(X.columns) : X.columns[k] = c
    THEN X.row[CHOOSE k \in 1..Len(X.columns) : X.columns[k] = c]
    ELSE fill

\* a reindex that keeps only the expected columns the frame already has
Reindex_NoFill(X, cols, fill) ==
    LET present(c) == \E k \in 1..Len(X.columns) : X.columns[k] = c
        kept == SelectSeq(cols, present)
    IN  [columns |-> kept,
         row |-> [i \in 1..Len(kept) |-> ValueOr(X, kept[i], fill)]]

\* X.reindex(columns=cols, fill_value=fill)
Reindex(X, cols, fill) ==
    [columns |-> cols,
     row |-> [i \in 1..Len(cols) |-> ValueOr(X, cols[i], fill)]]

RECURSIVE SumRow(_)
SumRow(row) == IF row = << >> THEN 0 ELSE Head(row) + SumRow(Tail(row))

\* judge.predict(X)[0]: the regressor is a fixed function of the features it
\* is given, modelled by JudgePenalty (in units of 0.01 eV) per unit of
\* every feature
JudgePenalty == 3
Predict(j, X) == JudgePenalty * SumRow(X.row)

\* X_aligned of get_stability(formula) with the judge j
Aligned(j, formula) ==
    LET X == Featurize(formula) IN Reindex(X, ExpectedCols(j, X), 0)

\* the value of get_stability(formula) with the judge j
get_stability(j, formula) == Predict(j, Aligned(j, formula))

\* _JUDGE = None
None == << >>

\* the object _load_judge() returns: the global, or a fresh copy of the file
Loaded ==
    IF JUDGE = None THEN [model |-> judge, id |-> loads + 1] ELSE JUDGE[1]

\* a _load_judge that unpickles the file on every call
LoadJudge_EveryCall ==
    /\ JUDGE' = <<[model |-> judge, id |-> loads + 1]>>
    /\ loads' = loads + 1
    /\ UNCHANGED judge

\* _load_judge()
LoadJudge ==
    /\ JUDGE' = <<Loaded>>
    /\ loads' = IF JUDGE = None THEN loads + 1 ELSE loads
    /\ UNCHANGED judge

\* get_stability(formula): its effect on the oracle
GetStability(formula) ==
    /\ LoadJudge
    /\ X_single' = Featurize(formula)
    /\ X_aligned' = Aligned(JUDGE'[1].model, formula)
    /\ ocalls' = ocalls + 1

\* the start formulas: every three-site formula over StartSymbols, and
\* formulas with fewer or more than three element tokens
StartSymbols == {<<"S">>, <<"U","u","e">>}
ThreeSiteFormulas == {Construct(<<a, b, x>>) : a, b, x \in StartSymbols}
OtherFormulas == { <<"B","a","S","3">>, <<"S","3">>, <<"3">>,
                   <<"B","a","S","S","S","3">> }
StartFormulas == ThreeSiteFormulas \cup OtherFormulas

\* random.random() in [0, 1) and the acceptance probability, in units of 1e-4
ProbScale == 10000
Draws == {0, 5000, 9999}
\* prob = np.exp(-diff / 0.05); it exceeds 1 for diff < 0
AcceptProb(diff) ==
    IF diff < 0 THEN ProbScale + 1
    ELSE LET ex == ExpNeg(diff, 5) IN Scale10(ex[1], -ex[2])

\* the acceptance test with the sign of the energy difference reversed
Accepts_WrongSign(diff, draw) == diff > 0 \/ draw < AcceptProb(-diff)

\* an acceptance test that lets every move pass
Accepts_Always(diff, draw) == TRUE

\* the acceptance test "diff < 0 or random.random() < prob"
Accepts(diff, draw) == diff < 0 \/ draw < AcceptProb(diff)

\* no call of random.random() (the test diff < 0 short-circuits)
NoDraw == -1

\* a best score that starts at 0 rather than at the start formula's score
InitialBest_Zero(score) == 0

\* "self.best_stability = self.current_stability" of the constructor
InitialBest(score) == score

\* a flag that is set only when the walker moved to another formula
AcceptedFlag_Moved(before, after, candidate) ==
    after = candidate /\ after # before

\* 'accepted': (self.current_formula == candidate), before and after being
\* current_formula at the start and at the end of the iteration
AcceptedFlag(before, after, candidate) == after = candidate

\* PerovskiteWalker.__init__: the fields, score the stability of the start
WalkerFields(start, score) ==
    /\ start_formula' = start
    /\ current_formula' = start
    /\ current_stability' = score
    /\ best_formula' = start
    /\ best_stability' = InitialBest(current_stability')
    /\ history' = << >>

\* PerovskiteWalker(start_formula) in a fresh process: the state after the
\* constructor, whose get_stability call loaded the judge
WalkerInit ==
    /\ judge \in Judges
    /\ JUDGE = <<[model |-> judge, id |-> 1]>>
    /\ loads = 1
    /\ start_formula \in StartFormulas
    /\ X_single = Featurize(start_formula)
    /\ X_aligned = Aligned(judge, start_formula)
    /\ ocalls = 1
    /\ current_formula = start_formula
    /\ current_stability = get_stability(judge, start_formula)
    /\ best_formula = start_formula
    /\ best_stability = InitialBest(current_stability)
    /\ history = << >>
    /\ wpc = "new"
    /\ steps = 0
    /\ last_draw = NoDraw
    /\ walkers = 1

\* the call walk(steps)
WalkCall ==
    /\ wpc = "new"
    /\ steps' \in 0..MaxWalkSteps
    /\ wpc' = "walking"
    /\ UNCHANGED <<start_formula, current_formula, current_stability,
                   best_formula, best_stability, history, last_draw, walkers,
                   envVars, oracleVars, dopantVars, acqVars, optVars>>

\* one iteration of the loop of walk
WalkStep ==
    /\ wpc = "walking"
    /\ Len(history) < steps
    /\ \E candidate \in mutate(current_formula), draw \in Draws :
          LET score == get_stability(Loaded.model, candidate)
              diff == score - current_stability
              accept == Accepts(diff, draw)
              champion == accept /\ score < best_stability
          IN  /\ GetStability(candidate)
              /\ last_draw' = IF diff < 0 THEN NoDraw ELSE draw
              /\ current_formula' = IF accept THEN candidate ELSE current_formula
              /\ current_stability' = IF accept THEN score ELSE current_stability
              /\ best_stability' = IF champion THEN score ELSE best_stability
              /\ best_formula' = IF champion THEN candidate ELSE best_formula
              /\ history' = Append(history,
                               [step |-> Len(history), formula |-> candidate,
                                score |-> score,
                                accepted |-> AcceptedFlag(current_formula,
                                                          current_formula',
                                                          candidate)])
    /\ UNCHANGED <<wpc, start_formula, steps, walkers, envVars, dopantVars,
                   acqVars, optVars>>

\* walk returns the history
WalkReturn ==
    /\ wpc = "walking"
    /\ Len(history) = steps
    /\ wpc' = "returned"
    /\ UNCHANGED <<start_formula, current_formula, current_stability,
                   best_formula, best_stability, history, steps, last_draw,
                   walkers, envVars, oracleVars, dopantVars, acqVars, optVars>>

\* The process of agent.py: calls of _load_judge and get_stability, and
\* walkers constructed one after the other as by the main block.
Seeds == { <<"B","a","H","f","S","3">>, <<"S","r","H","f","S","3">> }

\* _load_judge() called by the main block
LoadJudgeCall ==
    /\ loads < MaxOracleCalls
    /\ LoadJudge
    /\ UNCHANGED <<X_single, X_aligned, ocalls, envVars, walkerVars,
                   dopantVars, acqVars, optVars>>

\* get_stability(formula) called directly
GetStabilityCall ==
    /\ ocalls < MaxOracleCalls
    /\ \E formula \in StartFormulas : GetStability(formula)
    /\ UNCHANGED <<envVars, walkerVars, dopantVars, acqVars, optVars>>

\* PerovskiteWalker(seed), once the previous walker has returned
WalkerConstruct ==
    /\ wpc \in {"none", "returned"}
    /\ walkers < MaxWalkers
    /\ ocalls < MaxOracleCalls
    /\ \E seed \in Seeds :
          /\ GetStability(seed)
          /\ WalkerFields(seed, get_stability(Loaded.model, seed))
    /\ wpc' = "new"
    /\ steps' = 0
    /\ last_draw' = NoDraw
    /\ walkers' = walkers + 1
    /\ UNCHANGED <<envVars, dopantVars, acqVars, optVars>>

\* an iteration of walk within the calls explored
ProcessWalkStep == ocalls < MaxOracleCalls /\ WalkStep

----------------------------------------------------------------------------
(* alloys/doping/dopant.py: RealPhysicsOptimizer.run_experiment *)

\* concentrations in units of 1e-3, voltages in units of 1e-6 V
ConcScale == 1000
VoltScale == 1000000

\* Shannon radii (pm)
R_S == 184
R_Cl == 181
R_Br == 196
R_I == 220
\* Pauling electronegativities, in units of 0.01
X_S == 258
X_Cl == 316
X_Br == 296
X_I == 266
\* self.base_voltage = 2.3
base_voltage == 2300000
\* the sentinel returned for an insoluble composition
Sentinel == 0

\* the concentrations and the noise draws explored
ConcInputs == {0, 5, 200, 400, 500, 1000}
Compositions == {<<a, b, c>> : a, b, c \in ConcInputs}
NoiseInputs == {-60000, 0, 20000}

\* total_doping = np.sum(composition)
total_doping(c) == c[1] + c[2] + c[3]

\* voltage_gain = 1.5 * (x_Cl * d_Cl + x_Br * d_Br + x_I * d_I)
voltage_gain(c) ==
    LET d_Cl == X_Cl - X_S
        d_Br == X_Br - X_S
        d_I  == X_I - X_S
    IN  15 * (c[1] * d_Cl + c[2] * d_Br + c[3] * d_I)

\* total_strain, in units of 1e-3
total_strain(c) ==
    LET strain_Cl == (R_Cl - R_S) * (R_Cl - R_S)
        strain_Br == (R_Br - R_S) * (R_Br - R_S)
        strain_I  == (R_I - R_S) * (R_I - R_S)
    IN  c[1] * strain_Cl + c[2] * strain_Br + c[3] * strain_I

\* a strain penalty without the mild-distortion branch
strain_penalty_NoLinear(c) ==
    IF total_strain(c) > 300 * ConcScale THEN 2 * VoltScale ELSE 0

\* strain_penalty, in units of 1e-6 V
strain_penalty(c) ==
    IF total_strain(c) > 300 * ConcScale THEN 2 * VoltScale
    ELSE IF total_strain(c) > 100 * ConcScale THEN total_strain(c)
    ELSE 0

\* a solubility check that also rejects a total of exactly 1.0
Insoluble_Inclusive(c) == total_doping(c) >= ConcScale

\* "if total_doping > 1.0: return 0.0"
Insoluble(c) == total_doping(c) > ConcScale

\* RealPhysicsOptimizer.run_experiment(composition) with the noise draw eps
run_experiment(c, eps) ==
    IF Insoluble(c) THEN Sentinel
    ELSE IF total_doping(c) < ConcScale \div 100 THEN base_voltage
    ELSE base_voltage + voltage_gain(c) - strain_penalty(c) + eps

DopantInit ==
    /\ composition = <<0, 0, 0>>
    /\ noise = 0
    /\ response = 0
    /\ calls = 0

\* a call of run_experiment
RunExperiment ==
    /\ calls < MaxCalls
    /\ \E c \in Compositions, eps \in NoiseInputs :
          /\ composition' = c
          /\ noise' = eps
          /\ response' = run_experiment(c, eps)
    /\ calls' = calls + 1
    /\ UNCHANGED <<envVars, walkerVars, oracleVars, acqVars, optVars>>

----------------------------------------------------------------------------
(* alloys/doping/dopant.py: RealPhysicsOptimizer.expected_improvement *)

\* Predictions and y_best are in units of 1e-2 V, Z in halves, the normal
\* distribution in units of 1e-4 and the expected improvement in units of
\* 1e-6 V.  A float is a number of the model, an infinity or a NaN.
Num(v) == [k |-> "num", v |-> v]
PosInf == [k |-> "inf", v |-> 0]
NegInf == [k |-> "-inf", v |-> 0]
NaN == [k |-> "nan", v |-> 0]

\* xi = 0.01
xi == 1

\* the predictions of the surrogate and the best responses explored
MuInputs == {0, 229, 231, 232, 240, 260}
SigmaInputs == {0, 1, 2, 10}
YBestInputs == {0, 200, 230, 231, 239}
Predictions(S) == UNION {[1..n -> S] : n \in 1..MaxCandidates}

Abs(x) == IF x < 0 THEN -x ELSE x

\* Z = imp / sigma, to the nearest half and at most 4 in magnitude; numpy
\* divides by zero with a warning: x/0 is inf or -inf, 0/0 is nan
Z(imp, s) ==
    IF s = 0
    THEN IF imp > 0 THEN PosInf ELSE IF imp < 0 THEN NegInf ELSE NaN
    ELSE LET h == Min(8, (4 * Abs(imp) + s) \div (2 * s))
         IN  Num(IF imp < 0 THEN -h ELSE h)

\* the standard normal distribution at 0, 0.5, ..., 4
CdfTable == <<5000, 6915, 8413, 9332, 9772, 9938, 9987, 9998, 10000>>
PdfTable == <<3989, 3521, 2420, 1295, 540, 175, 44, 9, 1>>

\* norm.cdf
norm_cdf(z) ==
    IF z.k = "nan" THEN NaN
    ELSE IF z.k = "inf" THEN Num(10000)
    ELSE IF z.k = "-inf" THEN Num(0)
    ELSE IF z.v >= 0 THEN Num(CdfTable[z.v + 1])
    ELSE Num(10000 - CdfTable[1 - z.v])

\* norm.pdf
norm_pdf(z) ==
    IF z.k = "nan" THEN NaN
    ELSE IF z.k \in {"inf", "-inf"} THEN Num(0)
    ELSE Num(PdfTable[Abs(z.v) + 1])

\* the product of a number and a float that is a number or a NaN
Times(x, f) == IF f.k = "nan" THEN NaN ELSE Num(x * f.v)

\* the sum of two floats that are numbers or NaNs
Plus(f, g) == IF f.k = "nan" \/ g.k = "nan" THEN NaN ELSE Num(f.v + g.v)

\* ei = imp * norm.cdf(Z) + sigma * norm.pdf(Z) for one candidate
Improvement(m, s, yb) ==
    LET imp == m - yb - xi
    IN  Plus(Times(imp, norm_cdf(Z(imp, s))), Times(s, norm_pdf(Z(imp, s))))

\* a return without the assignment to the candidates of zero deviation
Mask_None(e, s) == e

\* "ei[sigma == 0.0] = 0.0" for one candidate
Mask(e, s) == IF s = 0 THEN Num(0) ELSE e

\* RealPhysicsOptimizer.expected_improvement for the predictions m, s
expected_improvement(m, s, yb) ==
    [i \in 1..Len(m) |-> Mask(Improvement(m[i], s[i], yb), s[i])]

\* a call of expected_improvement
ExpectedImprovement ==
    /\ \E m \in Predictions(MuInputs), s \in Predictions(SigmaInputs),
          yb \in YBestInputs :
          /\ Len(m) = Len(s)
          /\ mu' = m
          /\ sigma' = s
          /\ y_best' = yb
          /\ ei' = expected_improvement(m, s, yb)
    /\ UNCHANGED <<envVars, walkerVars, oracleVars, dopantVars, optVars>>

----------------------------------------------------------------------------
(* alloys/doping/dopant.py: RealPhysicsOptimizer.optimize *)

\* The surrogate is fitted anew in every iteration; its predictions for the
\* pool are nondeterministic.  The arguments and results of the calls of
\* run_experiment and expected_improvement that optimize makes are kept in
\* X_sample and Y_sample, not in the variables of the direct calls.

\* the points np.random.uniform(0, 0.4, 3) draws, one of them summing to more
\* than 1.0, and the rows np.random.uniform(0, 1.0, (2000, 3)) draws
InitPoints == { <<0, 0, 0>>, <<0, 0, 350>>, <<350, 350, 350>> }
PoolPoints == { <<0, 0, 200>>, <<900, 500, 0>> }
\* the noise draws and the predictions of the surrogate explored
OptNoise == {0, 20000}
OptMu == {229, 240}
OptSigma == {0, 2}

\* np.max
RECURSIVE MaxOf(_)
MaxOf(seq) ==
    IF Len(seq) = 1 THEN seq[1] ELSE Max(Head(seq), MaxOf(Tail(seq)))

\* an index of the smallest entry
ArgMax_Smallest(seq) ==
    CHOOSE k \in 1..Len(seq) :
        /\ \A j \in 1..Len(seq) : seq[j] >= seq[k]
        /\ \A j \in 1..(k - 1) : seq[j] # seq[k]

\* np.argmax: the first index of the largest entry
ArgMax(seq) ==
    CHOOSE k \in 1..Len(seq) :
        /\ \A j \in 1..Len(seq) : seq[j] <= seq[k]
        /\ \A j \in 1..(k - 1) : seq[j] # seq[k]

\* np.argmax of an array of floats: the first NaN if there is one
ArgMaxFloat(e) ==
    IF \E k \in 1..Len(e) : e[k].k = "nan"
    THEN CHOOSE k \in 1..Len(e) :
            e[k].k = "nan" /\ \A j \in 1..(k - 1) : e[j].k # "nan"
    ELSE ArgMax([k \in 1..Len(e) |-> e[k].v])

\* a recorded response (1e-6 V) as the y_best of expected_improvement (1e-2 V)
AsYBest(v) == v \div (VoltScale \div 100)

\* the call optimize(iterations)
OptimizeCall ==
    /\ opc = "idle"
    /\ iterations' \in 0..MaxIterations
    /\ X_sample' = << >>
    /\ opc' = "sampling"
    /\ UNCHANGED <<iter, Y_sample, candidate_pool, best_x, envVars, walkerVars,
                   oracleVars, dopantVars, acqVars>>

\* one pass of "while len(X_sample) < 3": a point that sums to more than 1.0
\* is drawn again
SamplePoint ==
    /\ opc = "sampling"
    /\ Len(X_sample) < 3
    /\ \E pt \in InitPoints :
          X_sample' = IF total_doping(pt) <= ConcScale
                      THEN Append(X_sample, pt) ELSE X_sample
    /\ UNCHANGED <<opc, iterations, iter, Y_sample, candidate_pool, best_x,
                   envVars, walkerVars, oracleVars, dopantVars, acqVars>>

\* Y_sample of the initial points and the candidate pool
EvaluateInitial ==
    /\ opc = "sampling"
    /\ Len(X_sample) = 3
    /\ \E eps \in [1..3 -> OptNoise] :
          Y_sample' = [k \in 1..3 |-> run_experiment(X_sample[k], eps[k])]
    /\ candidate_pool' \in [1..MaxPool -> PoolPoints]
    /\ iter' = 0
    /\ opc' = "looping"
    /\ UNCHANGED <<iterations, X_sample, best_x, envVars, walkerVars,
                   oracleVars, dopantVars, acqVars>>

\* one iteration of "for i in range(iterations)"
Iterate ==
    /\ opc = "looping"
    /\ iter < iterations
    /\ \E m \in [1..Len(candidate_pool) -> OptMu],
          s \in [1..Len(candidate_pool) -> OptSigma], eps \in OptNoise :
          LET e == expected_improvement(m, s, AsYBest(MaxOf(Y_sample)))
              best_cand_idx == ArgMaxFloat(e)
              next_x == candidate_pool[best_cand_idx]
              next_y == run_experiment(next_x, eps)
          IN  /\ X_sample' = Append(X_sample, next_x)
              /\ Y_sample' = Append(Y_sample, next_y)
    /\ iter' = iter + 1
    /\ UNCHANGED <<opc, iterations, candidate_pool, best_x, envVars,
                   walkerVars, oracleVars, dopantVars, acqVars>>

\* "best_idx = np.argmax(Y_sample)" and the return of best_x
OptimizeReturn ==
    /\ opc = "looping"
    /\ iter >= iterations
    /\ best_x' = X_sample[ArgMax(Y_sample)]
    /\ opc' = "returned"
    /\ UNCHANGED <<iterations, iter, X_sample, Y_sample, candidate_pool,
                   envVars, walkerVars, oracleVars, dopantVars, acqVars>>

----------------------------------------------------------------------------
(* Specifications *)

\* the components that a specification does not exercise are left as built
WalkerIdle ==
    /\ wpc = "none"
    /\ start_formula = << >>
    /\ current_formula = << >>
    /\ current_stability = 0
    /\ best_formula = << >>
    /\ best_stability = 0
    /\ history = << >>
    /\ steps = 0
    /\ last_draw = NoDraw
    /\ walkers = 0

\* the judge file exists and nothing has loaded it
OracleIdle ==
    /\ judge = PlainJudge
    /\ JUDGE = None
    /\ loads = 0
    /\ X_single = [columns |-> << >>, row |-> << >>]
    /\ X_aligned = [columns |-> << >>, row |-> << >>]
    /\ ocalls = 0

AcqIdle ==
    /\ mu = << >>
    /\ sigma = << >>
    /\ y_best = 0
    /\ ei = << >>

\* optimize has not been called
OptIdle ==
    /\ opc = "idle"
    /\ iterations = 0
    /\ iter = 0
    /\ X_sample = << >>
    /\ Y_sample = << >>
    /\ candidate_pool = << >>
    /\ best_x = << >>

EnvIdle ==
    /\ env = "none"
    /\ pc = "constructed"
    /\ temp = 0
    /\ state = <<0, 0, 0>>
    /\ time_step = 0
    /\ done = FALSE
    /\ sei_thickness = 0
    /\ charge_stored = 0
    /\ actual_J = 0
    /\ sei_before = 0
    /\ requested_J = 0
    /\ dendrite_fail = FALSE

\* the environments
EnvInit ==
    Init /\ WalkerIdle /\ OracleIdle /\ DopantInit /\ AcqIdle /\ OptIdle
Next == FurnaceReset \/ FurnaceStep \/ BatteryReset \/ BatteryStep
Spec == EnvInit /\ [][Next]_vars

\* a furnace driven from a cold start (reset at 300 K) with the heat action only
ColdStart == 300
HeatAction == 2
ColdHeatInit == EnvInit /\ env \in Furnaces
ColdReset == FurnaceResetAt(ColdStart)
HeatStep == FurnaceStepWith(HeatAction)
ColdHeatNext == ColdReset \/ HeatStep
SpecColdHeat == ColdHeatInit /\ [][ColdHeatNext]_vars

\* the composition walker
WalkerSpecInit ==
    WalkerInit /\ EnvIdle /\ DopantInit /\ AcqIdle /\ OptIdle
WalkerSpecNext == WalkCall \/ WalkStep \/ WalkReturn
SpecWalker == WalkerSpecInit /\ [][WalkerSpecNext]_vars

\* the dopant scoring function
DopantSpecInit ==
    DopantInit /\ EnvIdle /\ WalkerIdle /\ OracleIdle /\ AcqIdle /\ OptIdle
DopantSpecNext == RunExperiment
SpecDopant == DopantSpecInit /\ [][DopantSpecNext]_vars

\* the acquisition function
AcqSpecInit ==
    AcqIdle /\ EnvIdle /\ WalkerIdle /\ OracleIdle /\ DopantInit /\ OptIdle
AcqSpecNext == ExpectedImprovement
SpecAcquisition == AcqSpecInit /\ [][AcqSpecNext]_vars

\* the Bayesian optimisation loop
OptSpecInit ==
    OptIdle /\ AcqIdle /\ EnvIdle /\ WalkerIdle /\ OracleIdle /\ DopantInit
OptSpecNext ==
    \/ OptimizeCall \/ SamplePoint \/ EvaluateInitial \/ Iterate
    \/ OptimizeReturn
SpecOptimize == OptSpecInit /\ [][OptSpecNext]_vars

\* the process of agent.py, from before the judge is loaded
OracleSpecInit ==
    /\ judge \in Judges
    /\ JUDGE = None
    /\ loads = 0
    /\ X_single = [columns |-> << >>, row |-> << >>]
    /\ X_aligned = [columns |-> << >>, row |-> << >>]
    /\ ocalls = 0
    /\ WalkerIdle /\ EnvIdle /\ DopantInit /\ AcqIdle /\ OptIdle
OracleSpecNext ==
    \/ LoadJudgeCall \/ GetStabilityCall \/ WalkerConstruct
    \/ WalkCall \/ ProcessWalkStep \/ WalkReturn
SpecOracle == OracleSpecInit /\ [][OracleSpecNext]_vars

----------------------------------------------------------------------------
(* Properties of the environments *)

IsFurnace == env \in Furnaces
Sum(s) == s[1] + s[2] + s[3]

\* C1: in every furnace variant, after any step(action), whatever the action
\* and the temperature held before it (also a start temperature outside the
\* limits), the temperature is within the variant's [min, max] limits.
C1_TempWithinBoundsAfterStep ==
    (IsFurnace /\ pc = "stepped") =>
        (TempMin(env) <= temp /\ temp <= TempMax(env))

\* the first step after a reset far outside the limits ends on a limit: the
\* start temperatures inside the limits cannot reach it in one step
C1_Witness ==
    /\ IsFurnace /\ pc = "stepped" /\ time_step = 1
    /\ \/ (env = "alloys" /\ temp = TempMax(env))
       \/ (env = "perovskites" /\ temp = TempMax(env))

\* C2: in every furnace variant, after any sequence of reset and step calls,
\* each of the three fractions is within [0, 1].
C2_FractionsWithinUnit ==
    (IsFurnace /\ pc # "constructed") =>
        \A k \in 1..3 : 0 <= state[k] /\ state[k] <= FracScale

\* a step whose mass balance left [0, 1] on both sides: at 1225 K the forming
\* flow exceeds the precursor, which ends at 0 while the target ends at 1
C2_Witness ==
    /\ env = "perovskites" /\ pc = "stepped" /\ time_step = 1
    /\ state = <<0, FracScale, 0>>

\* C3: in every furnace variant, after any sequence of steps following a reset,
\* precursor + target + waste does not exceed 1, up to a rounding tolerance
\* (two units of the last digit of the fixed-point fractions).
C3_SumAtMostOne ==
    (IsFurnace /\ pc # "constructed") => Sum(state) <= FracScale + 2

\* C4: reset after any sequence of steps sets the fractions to (1, 0, 0) and
\* the step counter to 0; in BatteryInterfaceEnv it sets the SEI thickness to
\* 2.0, the stored charge to 0 and the step counter to 0.
C4_ResetRestoresInitialState ==
    (pc = "reset") =>
        /\ time_step = 0
        /\ IsFurnace => state = <<FracScale, 0, 0>>
        /\ (env = "battery") =>
              (sei_thickness = 2 * SeiScale /\ charge_stored = 0)

\* a reset called after the last step returned done, in a furnace
C4_Witness ==
    /\ IsFurnace /\ pc = "reset" /\ done
    /\ state = <<FracScale, 0, 0>> /\ time_step = 0

\* C10: in every environment the step counter never exceeds the configured
\* budget (max_time, max_steps), also for step calls made after done, and it
\* never decreases between resets.
C10_StepCounterBoundedMonotone ==
    [][ /\ time_step' <= Budget(env)
        /\ (pc' # "reset") => time_step' >= time_step ]_vars

\* C11: in every furnace variant the temperature is within the operating
\* limits in every reachable state, also right after reset (random or
\* caller-supplied start temperature) and before the first step.
C11_TempWithinBoundsAlways ==
    (IsFurnace /\ pc # "constructed") =>
        (TempMin(env) <= temp /\ temp <= TempMax(env))

\* C12 as stated: the rates of a step are computed at the temperature held
\* before the action, whose increment takes effect after the mass balance.
C12_RatesAtTempBeforeAction ==
    [][ (IsFurnace /\ pc' = "stepped") =>
            state' = ClipState(MassBalance(env, temp, state)) ]_vars

\* C12 amended: a step first applies the action's increment and the safety
\* limits, and computes the rates of its mass balance at the resulting
\* temperature.
C12_RatesAtTempAfterAction ==
    [][ (IsFurnace /\ pc' = "stepped") =>
            /\ \E action \in ActionInputs :
                  temp' = Clip(ControlTemp_Unclipped(env, temp, action),
                               TempMin(env), TempMax(env))
            /\ state' = ClipState(MassBalance(env, temp', state)) ]_vars

\* the first step of an alloys episode started at 450 K with the heat action:
\* the fractions are those of the rates at 455 K, not at 450 K
C12_Witness ==
    /\ env = "alloys" /\ pc = "stepped" /\ time_step = 1 /\ temp = 455
    /\ state = ClipState(MassBalance("alloys", 455, <<FracScale, 0, 0>>))
    /\ state # ClipState(MassBalance("alloys", 450, <<FracScale, 0, 0>>))

\* C14: a battery episode is terminal within its maximum length: when no
\* failure occurs, done is returned no later than the max_steps-th step call
\* after reset.
C14_DoneByMaxSteps ==
    (env = "battery" /\ pc = "stepped" /\ time_step = max_steps) => done

\* C21: in every battery step whose starting SEI thickness is below 8.0 the
\* applied current is at most 0.3, and it never exceeds the requested current
\* clipped to [0, 1]; a dendrite failure is flagged only in a step whose
\* starting SEI thickness is at least 8.0.
C21_GovernorLimitsCurrent ==
    (env = "battery" /\ pc = "stepped") =>
        /\ (sei_before < 8 * SeiScale) => (10 * actual_J <= 3 * JScale)
        /\ 0 <= requested_J /\ requested_J <= JScale
        /\ actual_J <= requested_J
        /\ dendrite_fail => (sei_before >= 8 * SeiScale)

\* a dendrite failure flagged in a step that started on a thick SEI, in an
\* episode that asked for the full current from a thin SEI before
C21_Witness ==
    /\ env = "battery" /\ pc = "stepped"
    /\ dendrite_fail
    /\ sei_before >= 8 * SeiScale
    /\ actual_J = JScale
    /\ 10 * charge_stored < 10 * JScale * time_step

----------------------------------------------------------------------------
(* Properties of the cold-start, always-heat run *)

\* C9: for each furnace variant, from a cold start (reset at 300 K) with the
\* heat action on every step until done is flagged at the step budget, the
\* final target-phase fraction is strictly greater than 0.
C9_ColdHeatFinalTargetPositive ==
    (IsFurnace /\ pc = "stepped" /\ done /\ time_step = max_time(env)) =>
        state[2] > 0

----------------------------------------------------------------------------
(* Properties of the composition walker *)

Last(h) == h[Len(h)]
NumTokens(formula) == Len(parse_formula(formula))

\* C5: at every step of walk where the candidate's score is strictly lower
\* than current_stability, the move is accepted whatever the random draw:
\* afterwards current_formula is the candidate, current_stability its score,
\* and the step's history record has accepted = True.
C5_ImprovingMoveAccepted ==
    [][ (Len(history') = Len(history) + 1
           /\ Last(history').score < current_stability) =>
        (/\ current_formula' = Last(history').formula
         /\ current_stability' = Last(history').score
         /\ Last(history').accepted = TRUE) ]_vars

\* a first step whose candidate scored below the start formula
C5_Witness ==
    /\ Len(history) = 1
    /\ history[1].score < get_stability(judge, start_formula)
    /\ history[1].accepted
    /\ current_formula = history[1].formula

\* the element symbols a walker's formula can be made of
WalkSymbols == StartSymbols \cup Choices(A_SITE) \cup Choices(B_SITE)
                  \cup Choices(X_SITE)

\* formula f begins with the letters p
StartsWith(f, p) == Len(p) <= Len(f) /\ SubSeq(f, 1, Len(p)) = p

\* C7: for every three-site formula A B X followed by '3', parse_formula
\* returns exactly [A, B, X] and the reconstruction of mutate gives the
\* formula back; every formula a walker started on a three-site formula holds
\* or logs as accepted parses into exactly three tokens.
C7_ParseReconstructRoundTrip ==
    /\ \A a \in WalkSymbols : StartsWith(current_formula, a) =>
          \A b \in WalkSymbols : StartsWith(current_formula, a \o b) =>
             \A x \in WalkSymbols :
                (current_formula = a \o b \o x \o <<"3">>) =>
                    /\ parse_formula(current_formula) = <<a, b, x>>
                    /\ Construct(parse_formula(current_formula))
                          = current_formula
    /\ (start_formula \in ThreeSiteFormulas) =>
          /\ NumTokens(current_formula) = 3
          /\ \A k \in 1..Len(history) :
                history[k].accepted => NumTokens(history[k].formula) = 3

\* a walker that left its three-site start formula, holding a formula with a
\* one-letter, a two-letter and a three-letter symbol
C7_Witness ==
    /\ start_formula \in ThreeSiteFormulas
    /\ Len(history) >= 1 /\ Last(history).accepted
    /\ current_formula # start_formula
    /\ \E a, b \in WalkSymbols :
          /\ Len(a) = 1 /\ Len(b) = 2
          /\ parse_formula(current_formula) = <<a, b, <<"U","u","e">> >>

\* C8: if the start formula parses into fewer than three element tokens,
\* mutate returns it unchanged, and current_formula and best_formula equal the
\* start formula after every step of walk.
C8_UnparsableFormulaStalls ==
    (NumTokens(start_formula) < 3) =>
        /\ current_formula = start_formula
        /\ best_formula = start_formula
        /\ \A k \in 1..Len(history) : history[k].formula = start_formula

\* a walk of at least two steps on a two-token formula
C8_Witness ==
    /\ NumTokens(start_formula) = 2
    /\ Len(history) >= 2
    /\ current_formula = start_formula

\* the acceptance test of a step, by the candidate's score, the stability held
\* before the step and the draw made (NoDraw when none was made)
Passed(score, held, draw) ==
    score < held \/ (draw # NoDraw /\ draw < AcceptProb(score - held))

\* C18: with the oracle a deterministic function of the formula, the accepted
\* flag of every history record is True exactly when that step's move passed
\* the acceptance test (score lower than current, or draw below the
\* acceptance probability) and False exactly when it was rejected, also when
\* the candidate equals the current formula.
C18_AcceptedFlagIsAcceptance ==
    [][ (Len(history') = Len(history) + 1) =>
            (Last(history').accepted <=>
                Passed(Last(history').score, current_stability, last_draw'))
      ]_vars

\* a first step whose candidate is the start formula itself: the scores are
\* equal, the highest draw passes the test and the flag is True
C18_Witness ==
    /\ Len(history) = 1
    /\ history[1].formula = start_formula
    /\ history[1].score = get_stability(judge, start_formula)
    /\ last_draw = 9999
    /\ history[1].accepted

\* C19: a candidate scoring strictly higher than current_stability is
\* accepted only if the draw is below exp(-(score - current_stability)/0.05);
\* a rejected move leaves current_formula, current_stability, best_formula
\* and best_stability unchanged and adds exactly one record to the history.
C19_WorseningMoveAcceptance ==
    [][ (Len(history') = Len(history) + 1) =>
            LET r == Last(history')
                d == r.score - current_stability
                p == LET ex == ExpNeg(d, 5) IN Scale10(ex[1], -ex[2])
            IN  /\ (d > 0 /\ (r.accepted \/ current_stability' = r.score)) =>
                      (last_draw' # NoDraw /\ last_draw' < p)
                /\ (d > 0 /\ last_draw' >= p) =>
                      /\ current_formula' = current_formula
                      /\ current_stability' = current_stability
                      /\ best_formula' = best_formula
                      /\ best_stability' = best_stability
                      /\ history' = Append(history, r)
      ]_vars

\* a worsening first move rejected (its score 0.03 eV above the start gives
\* probability 0.55), and a worsening second move accepted on the draw 0.5
C19_Witness ==
    /\ Len(history) = 2
    /\ history[1].score = get_stability(judge, start_formula) + 3
    /\ ~history[1].accepted
    /\ history[2].score > get_stability(judge, start_formula)
    /\ history[2].accepted
    /\ last_draw = 5000
    /\ current_formula = history[2].formula
    /\ best_formula = start_formula

\* the scores obtained so far: the start formula's and every candidate's
ScoresSoFar ==
    {get_stability(judge, start_formula)}
        \cup {history[k].score : k \in 1..Len(history)}

\* C20: after every step of walk, best_stability <= current_stability, and
\* best_stability is the minimum of the start formula's score and the scores
\* of all candidates proposed so far, accepted or not, with best_formula a
\* formula that obtained that score.
C20_BestIsMinimumSoFar ==
    /\ best_stability <= current_stability
    /\ best_stability \in ScoresSoFar
    /\ \A s \in ScoresSoFar : best_stability <= s
    /\ \/ (best_formula = start_formula
             /\ best_stability = get_stability(judge, start_formula))
       \/ \E k \in 1..Len(history) :
             /\ history[k].formula = best_formula
             /\ history[k].score = best_stability

\* a champion found on the first step, followed by a rejected candidate
C20_Witness ==
    /\ Len(history) = 2
    /\ history[1].score < get_stability(judge, start_formula)
    /\ history[2].score > history[1].score
    /\ ~history[2].accepted
    /\ best_stability = history[1].score
    /\ best_formula = history[1].formula

----------------------------------------------------------------------------
(* Properties of run_experiment *)

\* C6: run_experiment returns exactly the sentinel 0.0, without noise, for
\* every composition whose concentrations sum to more than 1.0; a composition
\* summing to exactly 1.0 is scored by the physics formula.
C6_InsolubleReturnsSentinel ==
    (calls > 0) =>
        /\ (total_doping(composition) > ConcScale) => response = Sentinel
        /\ (total_doping(composition) = ConcScale) =>
              /\ response # Sentinel
              /\ response = base_voltage + voltage_gain(composition)
                               - strain_penalty(composition) + noise

\* an insoluble composition evaluated with a non-zero noise draw
C6_Witness ==
    /\ calls > 0
    /\ total_doping(composition) > ConcScale
    /\ noise # 0
    /\ response = Sentinel
\* the penalty that the last call of run_experiment subtracted
SubtractedPenalty == base_voltage + voltage_gain(composition) + noise - response

\* C17: for every feasible composition (0.01 <= total <= 1.0) the strain
\* penalty subtracted by run_experiment depends on the total strain
\* 9*x_Cl + 144*x_Br + 1296*x_I only: 0 up to 100, 0.001 * total strain
\* above 100 and up to 300, and the fixed value 2.0 above 300.
C17_StrainPenaltyPiecewise ==
    LET total == composition[1] + composition[2] + composition[3]
        strain == 9 * composition[1] + 144 * composition[2]
                     + 1296 * composition[3]
    IN  (calls > 0 /\ ConcScale <= 100 * total /\ total <= ConcScale) =>
            SubtractedPenalty =
                IF strain <= 100 * ConcScale THEN 0
                ELSE IF strain <= 300 * ConcScale
                     THEN (VoltScale \div (1000 * ConcScale)) * strain
                ELSE 2 * VoltScale

\* a feasible composition in the mild-distortion band: 20 % iodine, total
\* strain 259.2, penalty 0.2592 V
C17_Witness ==
    /\ calls > 0
    /\ composition = <<0, 0, 200>>
    /\ SubtractedPenalty = 259200
----------------------------------------------------------------------------
(* Properties of the oracle *)

\* C13: within one process, over any sequence of _load_judge and
\* get_stability calls, those of constructing and walking several walkers
\* included, the judge file is opened and unpickled at most once, and every
\* call after the first uses the same loaded object.
C13_JudgeLoadedAtMostOnce ==
    [][ /\ loads' <= 1
        /\ (JUDGE # None) => (JUDGE' = JUDGE /\ loads' = loads)
        /\ (ocalls' # ocalls) =>
              (JUDGE' # None /\ JUDGE'[1] = [model |-> judge, id |-> 1]) ]_vars

\* a second walker, constructed after the first returned, has made a step:
\* three get_stability calls and one load
C13_Witness ==
    /\ walkers = 2
    /\ Len(history) >= 1
    /\ ocalls >= 3
    /\ loads = 1

\* the feature-name list the loaded judge exposes
HasNames == JUDGE[1].model.has_feature_names \/ JUDGE[1].model.has_estimators
Names ==
    IF JUDGE[1].model.has_feature_names
    THEN JUDGE[1].model.feature_names_in_
    ELSE JUDGE[1].model.estimators_[1]
ColumnsOf(X) == {X.columns[k] : k \in 1..Len(X.columns)}

\* C16: when the loaded judge exposes a feature-name list, the frame that
\* get_stability passes to predict has exactly the expected columns in the
\* expected order; an expected feature that was not extracted is 0, an
\* expected feature that was extracted keeps its value, and an extracted
\* feature that is not expected is dropped.
C16_AlignedToExpectedColumns ==
    (ocalls > 0 /\ HasNames) =>
        /\ X_aligned.columns = Names
        /\ Len(X_aligned.row) = Len(Names)
        /\ \A i \in 1..Len(Names) :
              /\ (Names[i] \notin ColumnsOf(X_single)) => X_aligned.row[i] = 0
              /\ \A k \in 1..Len(X_single.columns) :
                    (X_single.columns[k] = Names[i]) =>
                        X_aligned.row[i] = X_single.row[k]

\* a call whose extracted features miss an expected column, hold an
\* unexpected one and share a third with the judge
C16_Witness ==
    /\ ocalls > 0 /\ HasNames
    /\ \E c \in ColumnsOf(X_aligned) : c \notin ColumnsOf(X_single)
    /\ \E c \in ColumnsOf(X_single) : c \notin ColumnsOf(X_aligned)
    /\ \E i \in 1..Len(X_aligned.row) : X_aligned.row[i] > 0
----------------------------------------------------------------------------
(* Properties of expected_improvement *)

\* C15: expected_improvement returns exactly 0 for every candidate whose
\* predicted standard deviation is 0, whatever its predicted mean and the
\* best observed response, and never an infinite or undefined value.
C15_ZeroDeviationScoresZero ==
    \A i \in 1..Len(ei) :
        (sigma[i] = 0) => (ei[i].k = "num" /\ ei[i].v = 0)

\* a candidate of zero deviation whose mean is above the best response, for
\* which the formula gives the improvement itself, and one whose improvement
\* is 0, for which it gives 0/0
C15_Witness ==
    /\ Len(ei) >= 1
    /\ sigma[1] = 0
    /\ mu[1] - y_best - xi >= 0
    /\ Improvement(mu[1], sigma[1], y_best) # Num(0)
    /\ ei[1] = Num(0)
----------------------------------------------------------------------------
(* Properties of optimize *)

IsPrefix(s, t) == Len(s) <= Len(t) /\ SubSeq(t, 1, Len(s)) = s
PoolRows == {candidate_pool[k] : k \in 1..Len(candidate_pool)}

\* C22: optimize(iterations) starts from exactly 3 feasible samples, each
\* summing to at most 1.0, appends exactly one evaluated member of the fixed
\* candidate pool per iteration, removing and altering none, so that it ends
\* with 3 + iterations samples, and returns the sample whose recorded
\* response is the maximum of all recorded responses.
C22_OptimizeSamplesAndReturn ==
    /\ [](opc \in {"looping", "returned"} =>
            /\ Len(X_sample) = 3 + iter
            /\ Len(Y_sample) = Len(X_sample)
            /\ \A k \in 1..3 :
                  X_sample[k][1] + X_sample[k][2] + X_sample[k][3] <= ConcScale
            /\ \A k \in 4..Len(X_sample) :
                  /\ X_sample[k] \in PoolRows
                  /\ \E eps \in OptNoise :
                        Y_sample[k] = run_experiment(X_sample[k], eps))
    /\ [](opc = "returned" =>
            /\ Len(X_sample) = 3 + iterations
            /\ \E k \in 1..Len(X_sample) :
                  /\ best_x = X_sample[k]
                  /\ \A j \in 1..Len(Y_sample) : Y_sample[j] <= Y_sample[k])
    /\ [][ /\ IsPrefix(X_sample, X_sample')
           /\ IsPrefix(Y_sample, Y_sample')
           /\ Len(X_sample') <= Len(X_sample) + 1
           /\ (opc = "looping" /\ opc' = "looping") =>
                 (candidate_pool' = candidate_pool
                    /\ Len(X_sample') = Len(X_sample) + 1) ]_vars

\* a run of two iterations that returned a sample taken from the pool, not
\* the last one recorded
C22_Witness ==
    /\ opc = "returned"
    /\ iterations = 2
    /\ Len(X_sample) = 5
    /\ best_x = X_sample[4]
    /\ Y_sample[4] > Y_sample[5]
    /\ \A k \in 1..3 : Y_sample[k] < Y_sample[4]

====
